---- MODULE Spec2Model ----
(***************************************************************************)
(* reprozip: the archive packer (reprozip/pack.py, pack) and the isolated  *)
(* replay executor (reprounzip containerexec, containerexec_run), as one   *)
(* state machine.  A behaviour is one invocation of one of the two         *)
(* operations: PackSpec runs pack(target, directory), RunSpec runs         *)
(* containerexec_run(args).                                                *)
(***************************************************************************)
EXTENDS Integers, Sequences, FiniteSets, TLC

\* ------------------------------------------------------------------ bounds

\* Number of filesystem paths the Config may name (paths are 1..NPaths).
NPaths == 3

\* The hop count the specification asks the packer to enforce on a symlink
\* chain (pack.py itself defines no such constant).
MaxLinkHops == 2

\* The model stops following a chain after HopCap hops: the loop of
\* pack.py:59-63 has no bound of its own, the cap only keeps the model finite.
HopCap == MaxLinkHops + 2

Paths == 1..NPaths

\* Largest number of runs a Config records.
NRuns == 2

\* Largest number of termination signals delivered to one run operation.
MaxSignals == 2

\* Largest number of subcommands invoked on one target directory.
MaxOps == 4

\* ---------------------------------------------------------------- variables

VARIABLES
    \* ---- pack(target, directory)
    ppc,          \* position of pack in its code ("idle": pack is not running)
    fs,           \* filesystem: path -> [kind, to] (to: where a link points)
    packages,     \* Config: ordered packages, each [packfiles, files]
                  \*   (<<>> until load_config has run)
    other_files,  \* Config: ordered paths of the files owned by no package
    configfile,   \* os.path.isfile(directory/config.yml)
    trace,        \* os.path.isfile(directory/trace.sqlite3)
    target,       \* what is at the target path: "absent", "preexisting"
                  \*   (a file that was there before pack), "partial" (an
                  \*   archive open for writing), "complete" (closed archive)
    target0,      \* what was at the target path when pack was called
    tarOpened,    \* tarfile.open(target, 'w:gz') has been called
    members,      \* the members added to the archive so far, in order
    pi,           \* index of the package being handled (for pkg in packages)
    fi,           \* index of the file being handled (for f in ...)
    t,            \* the path the link loop is at (0: none)
    hops,         \* links followed for the current file
    perror,       \* how pack failed ("none" while it has not)
    \* ---- containerexec_run(args)
    rpc,          \* position of containerexec_run ("idle": it is not running)
    runs,         \* config.runs: run index (0..N-1) -> [uid, gid]
    argsRun,      \* args.run: a run index, or None (no run was named)
    cmdline,      \* args.cmdline: "none", or "override" (an argument vector)
    x11,          \* args.x11
    sidecar,      \* the persisted ReplayState: run index -> executed
    sidecar0,     \* the persisted ReplayState as the operation started
    unpacked_info,\* the ReplayState read by metadata_read (<<>> before)
    selected_runs,\* what get_runs returned
    cmds,         \* the combined command: the segments joined by ' && '
    uid,          \* local uid
    gid,          \* local gid
    executor,     \* the ContainerExecutor: <<>> or [uid, gid]
    handlers,     \* the signals signal_handler_kill is registered for
    delivered,    \* signal -> how many were delivered to the operation
    stopRequests, \* the calls of executor.stop(): the state of the child
                  \*   at each call, in order
    spawns,       \* calls of executor.execute_run
    child,        \* the child process: "none", "running", "exited"
    started,      \* the segments of cmds the child started, in order
    running,      \* the segment the child is running (0: none)
    finished,     \* how many segments ran to their end
    result,       \* what execute_run returned: [value, signal]
    retval,       \* what containerexec_run returned (None: nothing)
    writes,       \* calls of metadata_write
    statuses,     \* the exit statuses of the segments that ran to their end
    messages,     \* what the operation wrote to stderr, in order
    \* ---- the subcommands on one target directory (setup, run, destroy)
    root,         \* the isolated root at the target: "ABSENT" or "UNPACKED"
    oplog         \* the subcommands invoked so far, in order, each
                  \*   [op, before, after, outcome, fatal]

packVars == <<ppc, fs, packages, other_files, configfile, trace, target,
              target0, tarOpened, members, pi, fi, t, hops, perror>>

runVars == <<rpc, runs, argsRun, cmdline, x11, sidecar, sidecar0,
             unpacked_info, selected_runs, cmds, uid, gid, executor, handlers,
             delivered, stopRequests, spawns, child, started, running,
             finished, result, retval, writes, statuses, messages>>

lifeVars == <<root, oplog>>

vars == <<packVars, runVars, lifeVars>>

\* Python's None, where a number is expected.
None == -1

\* signal.SIGTERM and signal.SIGINT (default.py:102-103)
SIGTERM == 15
SIGINT == 2
Signals == {SIGTERM, SIGINT}

\* containerexec_run is not running.
RunIdle ==
    /\ rpc = "idle"
    /\ runs = <<>>
    /\ argsRun = None
    /\ cmdline = "none"
    /\ x11 = FALSE
    /\ sidecar = <<>>
    /\ sidecar0 = <<>>
    /\ unpacked_info = <<>>
    /\ selected_runs = <<>>
    /\ cmds = <<>>
    /\ uid = 0
    /\ gid = 0
    /\ executor = <<>>
    /\ handlers = {}
    /\ delivered = [s \in Signals |-> 0]
    /\ stopRequests = <<>>
    /\ spawns = 0
    /\ child = "none"
    /\ started = <<>>
    /\ running = 0
    /\ finished = 0
    /\ result = [value |-> None, signal |-> None]
    /\ retval = None
    /\ writes = 0
    /\ statuses = <<>>
    /\ messages = <<>>

\* ------------------------------------------------------ pack: the archive

\* Archive member names of the metadata (pack.py:39, 44, 49); payload members
\* are named by their path, a number of Paths.
METADATA_version == -1
METADATA_config == -2
METADATA_trace == -3

\* os.path.islink(p)
islink(p) == fs[p].kind = "link"

\* os.path.join(os.path.dirname(p), os.readlink(p))
readlink(p) == fs[p].to

\* tar.add(p) succeeds when lstat(p) does; on a missing path it raises OSError.
CanAdd(p) == fs[p].kind # "missing"

\* One filesystem object: a regular file, nothing, or a symbolic link.
FsEntries ==
    {[kind |-> "file", to |-> 0], [kind |-> "missing", to |-> 0]}
        \cup {[kind |-> "link", to |-> q] : q \in Paths}

\* <<a, a+1, ..., b>>
Range(a, b) == [i \in 1..(b - a + 1) |-> a + i - 1]

\* The Configs load_config can return: every path is listed exactly once; the
\* paths are numbered in listing order (first package, second package, then
\* the other files).  A path that only a link leads to is modelled by a file
\* of a package that is not packed.
Configs ==
    {[packages |-> <<[packfiles |-> x[1], files |-> Range(1, x[3])],
                     [packfiles |-> x[2], files |-> Range(x[3] + 1, x[4])]>>,
      other_files |-> Range(x[4] + 1, NPaths)] :
        x \in {y \in BOOLEAN \X BOOLEAN \X (0..NPaths) \X (0..NPaths) :
                    y[3] <= y[4]}}

PackInit ==
    /\ ppc = "start"
    /\ fs \in [Paths -> FsEntries]
    /\ packages = <<>>
    /\ other_files = <<>>
    /\ configfile \in BOOLEAN
    /\ trace \in BOOLEAN
    /\ target0 \in {"absent", "preexisting"}
    /\ target = target0
    /\ tarOpened = FALSE
    /\ members = <<>>
    /\ pi = 1
    /\ fi = 1
    /\ t = 0
    /\ hops = 0
    /\ perror = "none"
    /\ RunIdle
    /\ root = "ABSENT"
    /\ oplog = <<>>

\* Mutant of PackCheckTarget: the existence check is left out.
PackCheckTarget_NoCheck ==
    /\ ppc = "start"
    /\ ppc' = "checkconfig"
    /\ UNCHANGED <<fs, packages, other_files, configfile, trace, target,
                   target0, tarOpened, members, pi, fi, t, hops, perror>>
    /\ UNCHANGED <<runVars, lifeVars>>

\* pack.py:14-17: if os.path.exists(target): error, sys.exit(1)
PackCheckTarget ==
    /\ ppc = "start"
    /\ IF target # "absent"
       THEN ppc' = "exit1" /\ perror' = "TargetExists"
       ELSE ppc' = "checkconfig" /\ perror' = perror
    /\ UNCHANGED <<fs, packages, other_files, configfile, trace, target,
                   target0, tarOpened, members, pi, fi, t, hops>>
    /\ UNCHANGED <<runVars, lifeVars>>

\* pack.py:20-27: the configuration file must exist;
\* runs, packages, other_files = load_config(configfile)
PackCheckConfig ==
    /\ ppc = "checkconfig"
    /\ IF ~configfile
       THEN /\ ppc' = "exit1"
            /\ perror' = "ConfigMissing"
            /\ UNCHANGED <<packages, other_files>>
       ELSE /\ \E c \in Configs :
                  packages' = c.packages /\ other_files' = c.other_files
            /\ ppc' = "open"
            /\ perror' = perror
    /\ UNCHANGED <<fs, configfile, trace, target, target0, tarOpened,
                   members, pi, fi, t, hops>>
    /\ UNCHANGED <<runVars, lifeVars>>

\* pack.py:29-30: tar = tarfile.open(target, 'w:gz') creates (or truncates)
\* the file at the target path.
PackOpenTar ==
    /\ ppc = "open"
    /\ target' = "partial"
    /\ tarOpened' = TRUE
    /\ members' = <<>>
    /\ ppc' = "version"
    /\ UNCHANGED <<fs, packages, other_files, configfile, trace, target0,
                   pi, fi, t, hops, perror>>
    /\ UNCHANGED <<runVars, lifeVars>>

\* pack.py:32-41: the version marker, through a temporary file
PackAddVersion ==
    /\ ppc = "version"
    /\ members' = Append(members, METADATA_version)
    /\ ppc' = "config"
    /\ UNCHANGED <<fs, packages, other_files, configfile, trace, target,
                   target0, tarOpened, pi, fi, t, hops, perror>>
    /\ UNCHANGED <<runVars, lifeVars>>

\* pack.py:43-44: tar.add(configfile, 'METADATA/config.yml')
PackAddConfig ==
    /\ ppc = "config"
    /\ members' = Append(members, METADATA_config)
    /\ ppc' = "trace"
    /\ UNCHANGED <<fs, packages, other_files, configfile, trace, target,
                   target0, tarOpened, pi, fi, t, hops, perror>>
    /\ UNCHANGED <<runVars, lifeVars>>

\* Mutant of PackAddTrace: the trace is put in front of the other members.
PackAddTrace_First ==
    /\ ppc = "trace"
    /\ members' = IF trace THEN <<METADATA_trace>> \o members ELSE members
    /\ ppc' = "pkgs"
    /\ pi' = 1
    /\ fi' = 1
    /\ UNCHANGED <<fs, packages, other_files, configfile, trace, target,
                   target0, tarOpened, t, hops, perror>>
    /\ UNCHANGED <<runVars, lifeVars>>

\* pack.py:46-49: the original trace, if it is there
PackAddTrace ==
    /\ ppc = "trace"
    /\ members' = IF trace THEN Append(members, METADATA_trace) ELSE members
    /\ ppc' = "pkgs"
    /\ pi' = 1
    /\ fi' = 1
    /\ UNCHANGED <<fs, packages, other_files, configfile, trace, target,
                   target0, tarOpened, t, hops, perror>>
    /\ UNCHANGED <<runVars, lifeVars>>

\* pack.py:52-53, 64-65: a package with packfiles false is passed over
PackSkipPackage ==
    /\ ppc = "pkgs"
    /\ pi <= Len(packages)
    /\ ~packages[pi].packfiles
    /\ pi' = pi + 1
    /\ fi' = 1
    /\ UNCHANGED <<ppc, fs, packages, other_files, configfile, trace, target,
                   target0, tarOpened, members, t, hops, perror>>
    /\ UNCHANGED <<runVars, lifeVars>>

\* pack.py:55-58: t = f.path; tar.add(t)
PackAddFile ==
    /\ ppc = "pkgs"
    /\ pi <= Len(packages)
    /\ packages[pi].packfiles
    /\ fi <= Len(packages[pi].files)
    /\ LET p == packages[pi].files[fi] IN
        IF CanAdd(p)
        THEN /\ members' = Append(members, p)
             /\ t' = p
             /\ hops' = 0
             /\ ppc' = "link"
             /\ UNCHANGED perror
        ELSE /\ ppc' = "raised"
             /\ perror' = "OSError"
             /\ UNCHANGED <<members, t, hops>>
    /\ UNCHANGED <<fs, packages, other_files, configfile, trace, target,
                   target0, tarOpened, pi, fi>>
    /\ UNCHANGED <<runVars, lifeVars>>

\* pack.py:59-63: while os.path.islink(t): t = join(dirname(t), readlink(t));
\* tar.add(t)
PackFollowLink ==
    /\ ppc = "link"
    /\ islink(t)
    /\ hops < HopCap
    /\ LET q == readlink(t) IN
        IF CanAdd(q)
        THEN /\ members' = Append(members, q)
             /\ t' = q
             /\ hops' = hops + 1
             /\ UNCHANGED <<ppc, perror>>
        ELSE /\ ppc' = "raised"
             /\ perror' = "OSError"
             /\ t' = q
             /\ UNCHANGED <<members, hops>>
    /\ UNCHANGED <<fs, packages, other_files, configfile, trace, target,
                   target0, tarOpened, pi, fi>>
    /\ UNCHANGED <<runVars, lifeVars>>

\* pack.py:59: the while condition is false, the next file of the package
PackEndLinks ==
    /\ ppc = "link"
    /\ ~islink(t)
    /\ ppc' = "pkgs"
    /\ fi' = fi + 1
    /\ t' = 0
    /\ hops' = 0
    /\ UNCHANGED <<fs, packages, other_files, configfile, trace, target,
                   target0, tarOpened, members, pi, perror>>
    /\ UNCHANGED <<runVars, lifeVars>>

\* pack.py:55: the files of the package are exhausted, the next package
PackEndPackage ==
    /\ ppc = "pkgs"
    /\ pi <= Len(packages)
    /\ packages[pi].packfiles
    /\ fi > Len(packages[pi].files)
    /\ pi' = pi + 1
    /\ fi' = 1
    /\ UNCHANGED <<ppc, fs, packages, other_files, configfile, trace, target,
                   target0, tarOpened, members, t, hops, perror>>
    /\ UNCHANGED <<runVars, lifeVars>>

\* pack.py:52, 67-68: the packages are exhausted
PackEndPackages ==
    /\ ppc = "pkgs"
    /\ pi > Len(packages)
    /\ ppc' = "others"
    /\ fi' = 1
    /\ UNCHANGED <<fs, packages, other_files, configfile, trace, target,
                   target0, tarOpened, members, pi, t, hops, perror>>
    /\ UNCHANGED <<runVars, lifeVars>>

\* pack.py:69-71: for f in other_files: tar.add(f.path)
PackAddOther ==
    /\ ppc = "others"
    /\ fi <= Len(other_files)
    /\ LET p == other_files[fi] IN
        IF CanAdd(p)
        THEN /\ members' = Append(members, p)
             /\ fi' = fi + 1
             /\ UNCHANGED <<ppc, perror>>
        ELSE /\ ppc' = "raised"
             /\ perror' = "OSError"
             /\ UNCHANGED <<members, fi>>
    /\ UNCHANGED <<fs, packages, other_files, configfile, trace, target,
                   target0, tarOpened, pi, t, hops>>
    /\ UNCHANGED <<runVars, lifeVars>>

\* pack.py:73: tar.close()
PackClose ==
    /\ ppc = "others"
    /\ fi > Len(other_files)
    /\ target' = "complete"
    /\ ppc' = "done"
    /\ UNCHANGED <<fs, packages, other_files, configfile, trace, target0,
                   tarOpened, members, pi, fi, t, hops, perror>>
    /\ UNCHANGED <<runVars, lifeVars>>

PackNext ==
    \/ PackCheckTarget
    \/ PackCheckConfig
    \/ PackOpenTar
    \/ PackAddVersion
    \/ PackAddConfig
    \/ PackAddTrace
    \/ PackSkipPackage
    \/ PackAddFile
    \/ PackFollowLink
    \/ PackEndLinks
    \/ PackEndPackage
    \/ PackEndPackages
    \/ PackAddOther
    \/ PackClose

PackSpec == PackInit /\ [][PackNext]_vars

\* ------------------------------------------- containerexec_run: replay

\* pack is not running.
PackIdle ==
    /\ ppc = "idle"
    /\ fs = [p \in Paths |-> [kind |-> "file", to |-> 0]]
    /\ packages = <<>>
    /\ other_files = <<>>
    /\ configfile = FALSE
    /\ trace = FALSE
    /\ target = "absent"
    /\ target0 = "absent"
    /\ tarOpened = FALSE
    /\ members = <<>>
    /\ pi = 1
    /\ fi = 1
    /\ t = 0
    /\ hops = 0
    /\ perror = "none"

\* The uid and gid a run can have been recorded with.
RunRecords == {[uid |-> 0, gid |-> 0], [uid |-> 1000, gid |-> 100]}

\* Exit statuses of a command: success and failure.
ExitCodes == {0, 1}

NumRuns == Cardinality(DOMAIN runs)

\* Positions at which containerexec_run has ended.
RunEnded ==
    {"idle", "returned", "exit_usage", "exit_config", "exit_cannot_execute",
     "TypeError", "killed"}

RunInit ==
    /\ PackIdle
    /\ root = "UNPACKED"
    /\ oplog = <<>>
    /\ rpc = "start"
    /\ \E n \in 1..NRuns :
        /\ runs \in [0..(n - 1) -> RunRecords]
        /\ argsRun \in {None} \cup (0..n)
        /\ sidecar \in [0..(n - 1) -> BOOLEAN]
    /\ sidecar0 = sidecar
    /\ cmdline \in {"none", "override"}
    /\ x11 \in BOOLEAN
    /\ unpacked_info = <<>>
    /\ selected_runs = <<>>
    /\ cmds = <<>>
    /\ uid = 0
    /\ gid = 0
    /\ executor = <<>>
    /\ handlers = {}
    /\ delivered = [s \in Signals |-> 0]
    /\ stopRequests = <<>>
    /\ spawns = 0
    /\ child = "none"
    /\ started = <<>>
    /\ running = 0
    /\ finished = 0
    /\ result = [value |-> None, signal |-> None]
    /\ retval = None
    /\ writes = 0
    /\ statuses = <<>>
    /\ messages = <<>>

\* get_runs(runs, args.run, cmdline), the RunSelector: a named run selects
\* that index (ConfigError outside [0, N)), no named run selects all runs in
\* recorded order; a command-line override with more than one selected run is
\* a UsageError.
GetRuns(n, explicitRun, override) ==
    LET sel == IF explicitRun = None
               THEN [i \in 1..n |-> i - 1]
               ELSE <<explicitRun>>
    IN  IF explicitRun # None /\ ~(explicitRun \in 0..(n - 1))
        THEN [error |-> "ConfigError", runs |-> <<>>]
        ELSE IF override # "none" /\ Len(sel) > 1
        THEN [error |-> "UsageError", runs |-> <<>>]
        ELSE [error |-> "none", runs |-> sel]

\* Mutant of RunSelect: the selector's refusal is not acted on, every run is
\* selected.
RunSelect_IgnoreRefusal ==
    /\ rpc = "start"
    /\ unpacked_info' = sidecar
    /\ LET got == GetRuns(NumRuns, argsRun, cmdline) IN
        /\ selected_runs' = IF got.error = "none" THEN got.runs
                            ELSE [i \in 1..NumRuns |-> i - 1]
        /\ rpc' = "build"
    /\ UNCHANGED <<runs, argsRun, cmdline, x11, sidecar, sidecar0, cmds, uid,
                   gid, executor, handlers, delivered, stopRequests, spawns,
                   child, started, running, finished, result, retval, writes>>
    /\ UNCHANGED <<statuses, messages>>
    /\ UNCHANGED <<packVars, lifeVars>>

\* default.py:49-57: metadata_read, load_config_file, get_runs (which ends
\* the operation when it refuses the selection)
RunSelect ==
    /\ rpc = "start"
    /\ unpacked_info' = sidecar
    /\ LET got == GetRuns(NumRuns, argsRun, cmdline) IN
        /\ selected_runs' = got.runs
        /\ rpc' = CASE got.error = "ConfigError" -> "exit_config"
                    [] got.error = "UsageError" -> "exit_usage"
                    [] OTHER -> "build"
    /\ UNCHANGED <<runs, argsRun, cmdline, x11, sidecar, sidecar0, cmds, uid,
                   gid, executor, handlers, delivered, stopRequests, spawns,
                   child, started, running, finished, result, retval, writes>>
    /\ UNCHANGED <<statuses, messages>>
    /\ UNCHANGED <<packVars, lifeVars>>

\* default.py:80-83: the argument vector of a run's command
Argv(override) == IF override = "none" THEN "recorded" ELSE "override"

\* Mutant of RunCmds: the commands are built in the reverse order.
RunCmds_Reversed(sel, override) ==
    [i \in 1..Len(sel) |->
        [kind |-> "run", run |-> sel[Len(sel) + 1 - i], argv |-> Argv(override)]]

\* default.py:66-86: one '/bin/sh -c ...' command per selected run, in the
\* order of selected_runs
RunCmds(sel, override) ==
    [i \in 1..Len(sel) |->
        [kind |-> "run", run |-> sel[i], argv |-> Argv(override)]]

\* default.py:59-61, 87-88: the commands of x11.init_cmds (none unless X11 is
\* enabled)
X11InitCmds(enabled) ==
    IF enabled THEN <<[kind |-> "x11", run |-> None, argv |-> "init"]>> ELSE <<>>

\* Mutant of LastOf: the first selected run's value is kept.
LastOf_First(sel, field, default) ==
    IF sel = <<>> THEN default ELSE runs[sel[1]][field]

\* default.py:64-65, 77-78: uid and gid are overwritten by every selected run
LastOf(sel, field, default) ==
    IF sel = <<>> THEN default ELSE runs[sel[Len(sel)]][field]

\* default.py:59-97: the combined command, uid and gid, the executor
RunBuildCmds ==
    /\ rpc = "build"
    /\ cmds' = X11InitCmds(x11) \o RunCmds(selected_runs, cmdline)
    /\ uid' = LastOf(selected_runs, "uid", 0)
    /\ gid' = LastOf(selected_runs, "gid", 0)
    /\ executor' = [uid |-> uid', gid |-> gid']
    /\ rpc' = "sigterm"
    /\ UNCHANGED <<runs, argsRun, cmdline, x11, sidecar, sidecar0,
                   unpacked_info, selected_runs, handlers, delivered,
                   stopRequests, spawns, child, started, running, finished,
                   result, retval, writes>>
    /\ UNCHANGED <<statuses, messages>>
    /\ UNCHANGED <<packVars, lifeVars>>

\* default.py:102: signal.signal(signal.SIGTERM, signal_handler_kill)
RunRegisterSIGTERM ==
    /\ rpc = "sigterm"
    /\ handlers' = handlers \cup {SIGTERM}
    /\ rpc' = "sigint"
    /\ UNCHANGED <<runs, argsRun, cmdline, x11, sidecar, sidecar0,
                   unpacked_info, selected_runs, cmds, uid, gid, executor,
                   delivered, stopRequests, spawns, child, started, running,
                   finished, result, retval, writes>>
    /\ UNCHANGED <<statuses, messages>>
    /\ UNCHANGED <<packVars, lifeVars>>

\* default.py:103: signal.signal(signal.SIGINT, signal_handler_kill)
RunRegisterSIGINT ==
    /\ rpc = "sigint"
    /\ handlers' = handlers \cup {SIGINT}
    /\ rpc' = "spawn"
    /\ UNCHANGED <<runs, argsRun, cmdline, x11, sidecar, sidecar0,
                   unpacked_info, selected_runs, cmds, uid, gid, executor,
                   delivered, stopRequests, spawns, child, started, running,
                   finished, result, retval, writes>>
    /\ UNCHANGED <<statuses, messages>>
    /\ UNCHANGED <<packVars, lifeVars>>

\* Mutant of RunSpawn: the exception of execute_run is reported and the
\* operation goes on to the metadata update.
RunSpawn_FailureSwallowed ==
    /\ rpc = "spawn"
    /\ spawns' = spawns + 1
    /\ \E ok \in BOOLEAN :
        IF ok
        THEN /\ child' = "running"
             /\ rpc' = "wait"
             /\ messages' = messages
        ELSE /\ child' = child
             /\ rpc' = "update"
             /\ messages' = Append(messages, "Cannot execute process")
    /\ UNCHANGED <<runs, argsRun, cmdline, x11, sidecar, sidecar0,
                   unpacked_info, selected_runs, cmds, uid, gid, executor,
                   handlers, delivered, stopRequests, started, running,
                   finished, result, retval, writes>>
    /\ UNCHANGED <<statuses>>
    /\ UNCHANGED <<packVars, lifeVars>>

\* default.py:106-109, 117-118: signals.pre_run, then executor.execute_run
\* spawns the child and blocks on it, or raises BenchExecException or OSError
\* (sys.exit("Cannot execute process ..."))
RunSpawn ==
    /\ rpc = "spawn"
    /\ spawns' = spawns + 1
    /\ \E ok \in BOOLEAN :
        IF ok
        THEN /\ child' = "running"
             /\ rpc' = "wait"
             /\ messages' = messages
        ELSE /\ child' = child
             /\ rpc' = "exit_cannot_execute"
             /\ messages' = Append(messages, "Cannot execute process")
    /\ UNCHANGED <<runs, argsRun, cmdline, x11, sidecar, sidecar0,
                   unpacked_info, selected_runs, cmds, uid, gid, executor,
                   handlers, delivered, stopRequests, started, running,
                   finished, result, retval, writes>>
    /\ UNCHANGED <<statuses>>
    /\ UNCHANGED <<packVars, lifeVars>>

\* Mutant of Joiner: the commands are joined into a plain sequence.
Joiner_Sequence == ";"

\* default.py:89: cmds = ' && '.join(cmds)
Joiner == "&&"

\* The child: the next command of the combined command starts once the one
\* before it has exited (with status 0, when they are joined by '&&').
ChildStartSegment ==
    /\ child = "running"
    /\ running = 0
    /\ Len(started) < Len(cmds)
    /\ started' = Append(started, Len(started) + 1)
    /\ running' = Len(started) + 1
    /\ UNCHANGED <<rpc, runs, argsRun, cmdline, x11, sidecar, sidecar0,
                   unpacked_info, selected_runs, cmds, uid, gid, executor,
                   handlers, delivered, stopRequests, spawns, child, finished,
                   result, retval, writes>>
    /\ UNCHANGED <<statuses, messages>>
    /\ UNCHANGED <<packVars, lifeVars>>

\* The child: the running command exits; on a status other than 0 ('&&'
\* short-circuits), or after the last command, the child exits with that
\* status.
ChildFinishSegment ==
    /\ child = "running"
    /\ running # 0
    /\ \E st \in ExitCodes :
        /\ finished' = finished + 1
        /\ statuses' = Append(statuses, st)
        /\ running' = 0
        /\ IF (Joiner = "&&" /\ st # 0) \/ running = Len(cmds)
           THEN /\ child' = "exited"
                /\ result' = [value |-> st, signal |-> None]
           ELSE UNCHANGED <<child, result>>
    /\ UNCHANGED <<rpc, runs, argsRun, cmdline, x11, sidecar, sidecar0,
                   unpacked_info, selected_runs, cmds, uid, gid, executor,
                   handlers, delivered, stopRequests, spawns, started, retval,
                   writes>>
    /\ UNCHANGED <<messages>>
    /\ UNCHANGED <<packVars, lifeVars>>

\* The child is terminated by a signal (the one executor.stop() forwards, or
\* one sent to it from outside): the result carries the signal and no value.
ChildKilled ==
    /\ child = "running"
    /\ \E s \in Signals : result' = [value |-> None, signal |-> s]
    /\ child' = "exited"
    /\ running' = 0
    /\ UNCHANGED <<rpc, runs, argsRun, cmdline, x11, sidecar, sidecar0,
                   unpacked_info, selected_runs, cmds, uid, gid, executor,
                   handlers, delivered, stopRequests, spawns, started,
                   finished, retval, writes>>
    /\ UNCHANGED <<statuses, messages>>
    /\ UNCHANGED <<packVars, lifeVars>>

\* default.py:110-111: "... status: %d\n" % result.value or result.signal
\* is ("..." % result.value) or result.signal: %d of None raises TypeError,
\* which the except clause of line 117 does not catch.
RunReport ==
    /\ rpc = "wait"
    /\ child = "exited"
    /\ IF result.value = None
       THEN rpc' = "TypeError" /\ messages' = messages
       ELSE rpc' = "update" /\ messages' = Append(messages, "Command finished")
    /\ UNCHANGED <<runs, argsRun, cmdline, x11, sidecar, sidecar0,
                   unpacked_info, selected_runs, cmds, uid, gid, executor,
                   handlers, delivered, stopRequests, spawns, child, started,
                   running, finished, result, retval, writes>>
    /\ UNCHANGED <<statuses>>
    /\ UNCHANGED <<packVars, lifeVars>>

\* metadata_update_run(config, unpacked_info, selected_runs), the
\* RunMetadataTracker's update: the given indices are marked executed, the
\* others are left as they are.
MetadataUpdateRun(state, sel) ==
    [i \in DOMAIN state |->
        IF \E k \in 1..Len(sel) : sel[k] = i THEN TRUE ELSE state[i]]

\* Mutant of RunUpdateMetadata: the updated state is not written.
RunUpdateMetadata_NoWrite ==
    /\ rpc = "update"
    /\ unpacked_info' = MetadataUpdateRun(unpacked_info, selected_runs)
    /\ rpc' = "return"
    /\ UNCHANGED <<runs, argsRun, cmdline, x11, sidecar, sidecar0,
                   selected_runs, cmds, uid, gid, executor, handlers,
                   delivered, stopRequests, spawns, child, started, running,
                   finished, result, retval, writes>>
    /\ UNCHANGED <<statuses, messages>>
    /\ UNCHANGED <<packVars, lifeVars>>

\* default.py:113-115: metadata_update_run, metadata_write
RunUpdateMetadata ==
    /\ rpc = "update"
    /\ unpacked_info' = MetadataUpdateRun(unpacked_info, selected_runs)
    /\ sidecar' = unpacked_info'
    /\ writes' = writes + 1
    /\ rpc' = "return"
    /\ UNCHANGED <<runs, argsRun, cmdline, x11, sidecar0, selected_runs, cmds,
                   uid, gid, executor, handlers, delivered, stopRequests,
                   spawns, child, started, running, finished, result, retval>>
    /\ UNCHANGED <<statuses, messages>>
    /\ UNCHANGED <<packVars, lifeVars>>

\* Python's `a or b` on numbers and None
Or(a, b) == IF a # None /\ a # 0 THEN a ELSE b

\* default.py:121: return result.signal or result.value
RunReturn ==
    /\ rpc = "return"
    /\ retval' = Or(result.signal, result.value)
    /\ rpc' = "returned"
    /\ UNCHANGED <<runs, argsRun, cmdline, x11, sidecar, sidecar0,
                   unpacked_info, selected_runs, cmds, uid, gid, executor,
                   handlers, delivered, stopRequests, spawns, child, started,
                   running, finished, result, writes>>
    /\ UNCHANGED <<statuses, messages>>
    /\ UNCHANGED <<packVars, lifeVars>>

\* default.py:118, 121: the process-level result: sys.exit(message) ends the
\* process with status 1, a return hands the returned value to the caller.
ProcessResult ==
    CASE rpc = "exit_cannot_execute" -> 1
      [] rpc = "returned" -> retval
      [] OTHER -> None

\* Mutant of RunSignal: only the first handled signal calls executor.stop().
RunSignal_StopOnce ==
    /\ ~(rpc \in RunEnded)
    /\ delivered[SIGTERM] + delivered[SIGINT] < MaxSignals
    /\ \E s \in Signals :
        /\ delivered' = [delivered EXCEPT ![s] = @ + 1]
        /\ IF s \in handlers
           THEN /\ stopRequests' = IF stopRequests = <<>> THEN <<child>>
                                    ELSE stopRequests
                /\ UNCHANGED rpc
           ELSE /\ rpc' = "killed"
                /\ UNCHANGED stopRequests
    /\ UNCHANGED <<runs, argsRun, cmdline, x11, sidecar, sidecar0,
                   unpacked_info, selected_runs, cmds, uid, gid, executor,
                   handlers, spawns, child, started, running, finished,
                   result, retval, writes>>
    /\ UNCHANGED <<statuses, messages>>
    /\ UNCHANGED <<packVars, lifeVars>>

\* default.py:99-103: a SIGTERM or SIGINT is delivered to the operation.
\* With signal_handler_kill registered for it the handler calls
\* executor.stop(); before that the signal's default action ends the
\* operation (termination, KeyboardInterrupt).
RunSignal ==
    /\ ~(rpc \in RunEnded)
    /\ delivered[SIGTERM] + delivered[SIGINT] < MaxSignals
    /\ \E s \in Signals :
        /\ delivered' = [delivered EXCEPT ![s] = @ + 1]
        /\ IF s \in handlers
           THEN /\ stopRequests' = Append(stopRequests, child)
                /\ UNCHANGED rpc
           ELSE /\ rpc' = "killed"
                /\ UNCHANGED stopRequests
    /\ UNCHANGED <<runs, argsRun, cmdline, x11, sidecar, sidecar0,
                   unpacked_info, selected_runs, cmds, uid, gid, executor,
                   handlers, spawns, child, started, running, finished,
                   result, retval, writes>>
    /\ UNCHANGED <<statuses, messages>>
    /\ UNCHANGED <<packVars, lifeVars>>

RunNext ==
    \/ RunSelect
    \/ RunBuildCmds
    \/ RunRegisterSIGTERM
    \/ RunRegisterSIGINT
    \/ RunSpawn
    \/ ChildStartSegment
    \/ ChildFinishSegment
    \/ ChildKilled
    \/ RunReport
    \/ RunUpdateMetadata
    \/ RunReturn
    \/ RunSignal

RunSpec == RunInit /\ [][RunNext]_vars

\* --------------------------------------- the lifecycle of a target directory

\* Mutant of Func: the destroy subcommand is wired to chroot_create.
Func_DestroyCreates(subcommand) ==
    CASE subcommand = "setup" -> "chroot_create"
      [] subcommand = "run" -> "containerexec_run"
      [] subcommand = "destroy" -> "chroot_create"

\* default.py:184, 208, 223: parser_X.set_defaults(func=...)
Func(subcommand) ==
    CASE subcommand = "setup" -> "chroot_create"
      [] subcommand = "run" -> "containerexec_run"
      [] subcommand = "destroy" -> "chroot_destroy_dir"

\* What a function does to the isolated root r (ReplayEnvironment.create and
\* destroy; a run needs the target to exist and leaves it unpacked).
Effect(func, r) ==
    CASE func = "chroot_create" ->
            IF r = "ABSENT"
            THEN [after |-> "UNPACKED", outcome |-> "created", fatal |-> FALSE]
            ELSE [after |-> r, outcome |-> "already set up", fatal |-> TRUE]
      [] func = "chroot_destroy_dir" ->
            IF r = "UNPACKED"
            THEN [after |-> "ABSENT", outcome |-> "destroyed", fatal |-> FALSE]
            ELSE [after |-> "ABSENT", outcome |-> "nothing to destroy",
                  fatal |-> FALSE]
      [] func = "containerexec_run" ->
            IF r = "UNPACKED"
            THEN [after |-> r, outcome |-> "ran", fatal |-> FALSE]
            ELSE [after |-> r, outcome |-> "target does not exist",
                  fatal |-> TRUE]

\* One subcommand is invoked on the target: args.func(args).
Command(subcommand) ==
    /\ rpc = "idle"
    /\ ppc = "idle"
    /\ Len(oplog) < MaxOps
    /\ LET e == Effect(Func(subcommand), root) IN
        /\ root' = e.after
        /\ oplog' = Append(oplog, [op |-> subcommand, before |-> root,
                                   after |-> e.after, outcome |-> e.outcome,
                                   fatal |-> e.fatal])
    /\ UNCHANGED <<packVars, runVars>>

\* reprounzip containerexec setup <pack> <target>
LifeSetup == Command("setup")

\* reprounzip containerexec run <target>
LifeRun == Command("run")

\* reprounzip containerexec destroy <target>
LifeDestroy == Command("destroy")

LifeInit ==
    /\ PackIdle
    /\ RunIdle
    /\ root \in {"ABSENT", "UNPACKED"}
    /\ oplog = <<>>

LifeNext ==
    \/ LifeSetup
    \/ LifeRun
    \/ LifeDestroy

LifeSpec == LifeInit /\ [][LifeNext]_vars

\* One invocation of pack or of containerexec_run, or a sequence of
\* subcommands on one target directory.
Init == PackInit \/ RunInit \/ LifeInit

Next == PackNext \/ RunNext \/ LifeNext

Spec == Init /\ [][Next]_vars

\* ------------------------------------------------------------ pack: claims

\* C1: pack never overwrites an existing target: when something is at the
\* target path as pack is called, pack ends in its "target exists" failure
\* before any archive is opened for writing, and what was at the target path
\* stays as it was.
C1_NeverOverwrites ==
    target0 = "preexisting" =>
        /\ target = "preexisting"
        /\ ~tarOpened
        /\ members = <<>>
        /\ ppc \in {"start", "exit1"}
        /\ (ppc = "exit1" => perror = "TargetExists")

C1_Witness ==
    target0 = "preexisting" /\ ppc = "exit1" /\ perror = "TargetExists"

\* C2: a symlink chain longer than the maximum hop count fails the pack and
\* leaves no archive at the target path: pack never follows more than
\* MaxLinkHops links of one file without having failed, the target absent.
C2_ChainBounded ==
    hops > MaxLinkHops => (ppc = "raised" /\ target = "absent")

\* C3: packing is atomic: once pack has failed, no partially written archive
\* is at the target path, and what is there is what was there before.
C3_Atomic ==
    ppc \in {"raised", "exit1"} => (target # "partial" /\ target = target0)

\* The paths owned by the packages that are (packed = TRUE) or are not
\* (packed = FALSE) to be bundled.
OwnedBy(packed) ==
    {packages[i].files[j] :
        <<i, j>> \in {x \in (1..Len(packages)) \X (1..NPaths) :
                        /\ packages[x[1]].packfiles = packed
                        /\ x[2] <= Len(packages[x[1]].files)}}

Payload == {members[i] : i \in {k \in 1..Len(members) : members[k] \in Paths}}

\* C4: the payload of a written archive holds no file of a package whose
\* packfiles flag is false, and holds every file of a package whose flag is
\* true and every other file.
C4_PackfilesRespected ==
    ppc = "done" =>
        /\ OwnedBy(FALSE) \cap Payload = {}
        /\ OwnedBy(TRUE) \subseteq Payload
        /\ {other_files[i] : i \in 1..Len(other_files)} \subseteq Payload

\* The targets of the chain of links that starts at p, in order (fuel bounds
\* the recursion; a chain without a cycle has fewer than NPaths links).
RECURSIVE ChainFrom(_, _)
ChainFrom(p, fuel) ==
    IF islink(p) /\ fuel > 0
    THEN <<readlink(p)>> \o ChainFrom(readlink(p), fuel - 1)
    ELSE <<>>

\* Each file of the list followed by the targets of its chain.
RECURSIVE WithChains(_)
WithChains(files) ==
    IF files = <<>>
    THEN <<>>
    ELSE <<Head(files)>> \o ChainFrom(Head(files), NPaths)
            \o WithChains(Tail(files))

RECURSIVE PackagePayload(_)
PackagePayload(pkgs) ==
    IF pkgs = <<>>
    THEN <<>>
    ELSE (IF Head(pkgs).packfiles THEN WithChains(Head(pkgs).files) ELSE <<>>)
            \o PackagePayload(Tail(pkgs))

\* The member sequence the Config and the filesystem determine.
ExpectedMembers ==
    <<METADATA_version, METADATA_config>>
        \o (IF trace THEN <<METADATA_trace>> ELSE <<>>)
        \o PackagePayload(packages)
        \o other_files

\* C5: the members of a written archive are, in this order, the version
\* marker, the Config, the trace if there is one, each packed package's files
\* in listed order (every file followed at once by the targets of its link
\* chain), then the other files in listed order: the sequence is a function
\* of the inputs alone.
C5_MemberOrder == ppc = "done" => members = ExpectedMembers

C5_Witness ==
    /\ ppc = "done"
    /\ trace
    /\ Len(other_files) > 0
    /\ packages[1].packfiles
    /\ packages[2].packfiles
    /\ Len(packages[1].files) > 0
    /\ Len(packages[2].files) > 0
    /\ islink(packages[1].files[1])

\* ---------------------------------------------------------- replay: claims

\* The operation has ended, in whatever way.
RunOver == rpc \in RunEnded \ {"idle"}

\* A command-line override was given and no run was named in a Config of
\* several runs: the selection has more than one run.
MultiRunOverride == rpc # "idle" /\ cmdline # "none" /\ argsRun = None /\ NumRuns > 1

\* C6: a command-line override together with a selection of more than one
\* run ends the operation with the usage error before the executor exists and
\* before anything is spawned, and the override argument vector is never the
\* argument vector of more than one command of the combined command.
C6_OverrideNeedsSingleRun ==
    /\ MultiRunOverride =>
        /\ rpc \in {"start", "exit_usage", "killed"}
        /\ cmds = <<>>
        /\ executor = <<>>
        /\ spawns = 0
        /\ child = "none"
    /\ Cardinality({i \in 1..Len(cmds) : cmds[i].argv = "override"}) <= 1

C6_Witness == MultiRunOverride /\ rpc = "exit_usage" /\ spawns = 0

\* The runs whose command the child has started, in the order of their start.
RECURSIVE RunsOf(_)
RunsOf(segs) ==
    IF segs = <<>>
    THEN <<>>
    ELSE (IF cmds[Head(segs)].kind = "run" THEN <<cmds[Head(segs)].run>> ELSE <<>>)
            \o RunsOf(Tail(segs))

IsPrefix(a, b) == Len(a) <= Len(b) /\ \A i \in 1..Len(a) : a[i] = b[i]

\* C7: the selected runs are executed by one child invocation, in which their
\* commands start in selection order, one at a time: a command starts only
\* after every command started before it has run to its end.
C7_OneChildSelectionOrder ==
    /\ spawns <= 1
    /\ IsPrefix(RunsOf(started), selected_runs)
    /\ (running # 0 => /\ running = started[Len(started)]
                       /\ finished = Len(started) - 1)
    /\ (child = "running" /\ running = 0 => finished = Len(started))

C7_Witness ==
    /\ Len(selected_runs) > 1
    /\ RunsOf(started) = selected_runs
    /\ finished = Len(cmds)
    /\ rpc = "returned"

\* The persisted ReplayState that marks the selected runs executed and leaves
\* the others as they were when the operation started.
Selected(i) == \E k \in 1..Len(selected_runs) : selected_runs[k] = i

\* C8: once a run operation whose child was spawned and has completed is
\* over, the persisted ReplayState marks every selected run executed and
\* keeps every other run's flag as it was before the operation.
C8_SelectedMarkedOthersKept ==
    (RunOver /\ spawns > 0 /\ child = "exited") =>
        \A i \in DOMAIN sidecar :
            sidecar[i] = (IF Selected(i) THEN TRUE ELSE sidecar0[i])

\* C9: the result carries an exit code or a signal number, never both; the
\* operation returns 128 + signal when the child was terminated by a signal
\* and the child's exit code otherwise.
C9_ExitCodeOfSignal ==
    (RunOver /\ child = "exited") =>
        /\ (result.value = None) # (result.signal = None)
        /\ rpc = "returned"
        /\ retval = (IF result.signal # None
                     THEN 128 + result.signal ELSE result.value)

\* The stop requests issued while the child was running.
StopsDuringExecution ==
    {i \in 1..Len(stopRequests) : stopRequests[i] = "running"}

\* C10 (as stated): the handlers of both signals are registered before the
\* child is spawned and stay registered, and at most one stop request is
\* issued over one execution however many signals arrive.
C10_AtMostOneStop ==
    /\ (spawns > 0 => handlers = Signals)
    /\ Cardinality(StopsDuringExecution) <= 1

\* C10 (amended): the handlers of both signals are registered before the
\* child is spawned and stay registered, and every signal received while its
\* handler is registered issues one stop request: the stop requests are as
\* many as the signals delivered, less the one whose default action ended
\* the operation.
C10_OneStopPerSignal ==
    /\ (spawns > 0 => handlers = Signals)
    /\ Len(stopRequests) =
        delivered[SIGTERM] + delivered[SIGINT] - (IF rpc = "killed" THEN 1 ELSE 0)

C10_Witness ==
    /\ child = "running"
    /\ delivered[SIGTERM] >= 1
    /\ delivered[SIGINT] >= 1
    /\ Cardinality(StopsDuringExecution) >= 2

\* C11: cancellation is synchronous: once a termination signal has been
\* delivered during the execution, the operation is not over before the child
\* has exited and the result has been recorded in the metadata sidecar.
C11_SynchronousCancel ==
    (RunOver /\ StopsDuringExecution # {}) =>
        /\ child = "exited"
        /\ writes > 0
        /\ \A i \in DOMAIN sidecar : Selected(i) => sidecar[i]

\* execute_run was called and raised: no child came to be.
SpawnFailed == spawns > 0 /\ child = "none"

\* C12: when the isolation primitive fails to spawn, the operation ends with
\* one message and a non-zero process-level result, no command of the
\* selection is started, and the persisted ReplayState is neither changed nor
\* rewritten.
C12_SpawnFailureAborts ==
    SpawnFailed =>
        /\ rpc = "exit_cannot_execute"
        /\ messages = <<"Cannot execute process">>
        /\ ProcessResult # 0
        /\ ProcessResult # None
        /\ started = <<>>
        /\ sidecar = sidecar0
        /\ writes = 0

C12_Witness ==
    /\ SpawnFailed
    /\ rpc = "exit_cannot_execute"
    /\ Len(selected_runs) > 1
    /\ \E i \in DOMAIN sidecar : Selected(i) /\ ~sidecar[i]

\* C13: the uid and gid the executor is created with, for the whole combined
\* invocation, are those of the last selected run, whatever the earlier
\* selected runs were recorded with.
C13_LastRunsUidGid ==
    executor # <<>> =>
        LET last == selected_runs[Len(selected_runs)] IN
            /\ executor.uid = runs[last].uid
            /\ executor.gid = runs[last].gid

C13_Witness ==
    /\ child = "running"
    /\ Len(selected_runs) > 1
    /\ runs[selected_runs[1]].uid # runs[selected_runs[Len(selected_runs)]].uid
    /\ executor.uid = runs[selected_runs[Len(selected_runs)]].uid
    /\ executor.uid # runs[selected_runs[1]].uid

\* C15: the commands of the combined command (the X11 init commands, then
\* the selected runs' commands) are chained by a short-circuit AND: a command
\* has started only if every command before it exited with status 0; and the
\* operation, when it returns, has marked every selected run executed,
\* whether or not its command was ever started.
C15_ShortCircuitChain ==
    /\ \A k \in 1..Len(started) :
          \A j \in 1..(k - 1) : j <= Len(statuses) /\ statuses[j] = 0
    /\ (rpc = "returned" => \A i \in DOMAIN sidecar : Selected(i) => sidecar[i])

\* A run is marked executed by this operation and its command never started.
C15_Witness ==
    /\ rpc = "returned"
    /\ \E i \in DOMAIN sidecar :
          /\ Selected(i)
          /\ sidecar[i]
          /\ ~sidecar0[i]
          /\ ~(\E k \in 1..Len(started) :
                  cmds[started[k]].kind = "run" /\ cmds[started[k]].run = i)

\* ------------------------------------------------------- lifecycle: claims

====
